---------------------------- MODULE Spec2Model ----------------------------
(***************************************************************************)
(* AssemblerLib::MeshComponentMap: the map between (mesh location,         *)
(* component) pairs and global indices, src/AssemblerLib/MeshComponentMap  *)
(* .cpp.  The dictionary _dict is a boost multi_index container declared   *)
(* in a header that is not part of the sources at hand; its two views      *)
(* (ByLocationAndComponent, unique; ByLocation, non-unique) are modelled   *)
(* from the specification's description of the Index Dictionary.           *)
(***************************************************************************)
EXTENDS Integers, Sequences, FiniteSets, TLC

(***************************************************************************)
(* Bounds of the model.                                                    *)
(***************************************************************************)
\* Longest component list handed to the constructor or to getSubset.
MaxComponents == 2
\* Width of GlobalIndexType in the model (the program's is a machine word).
IndexBits == 4
\* Longest location list handed to getGlobalIndicesBy{Location,Component}.
MaxLocs == 2

IndexModulus == 2 ^ IndexBits

\* std::numeric_limits<GlobalIndexType>::max()
nop == IndexModulus - 1

(***************************************************************************)
(* Value types.                                                            *)
(***************************************************************************)
Location(mesh_id, item_type, item_id) ==
    [mesh_id |-> mesh_id, item_type |-> item_type, item_id |-> item_id]

Line(l, comp_id, global_index) ==
    [location |-> l, comp_id |-> comp_id, global_index |-> global_index]

MeshSubset(mesh_id, nodes, elements) ==
    [mesh_id |-> mesh_id, nodes |-> nodes, elements |-> elements]

\* A slot of the components vector: a MeshSubsets* that is set ...
Component(subsets) == [null |-> FALSE, subsets |-> subsets]

\* ... or nullptr.
NullComponent == [null |-> TRUE, subsets |-> <<>>]

\* MeshItemType enumerates Node before Cell.
ItemTypeRank(t) == IF t = "Node" THEN 0 ELSE 1

\* Location's total order: lexicographic on (mesh_id, item_type, item_id).
LocationLess(a, b) ==
    \/ a.mesh_id < b.mesh_id
    \/ /\ a.mesh_id = b.mesh_id
       /\ \/ ItemTypeRank(a.item_type) < ItemTypeRank(b.item_type)
          \/ /\ a.item_type = b.item_type
             /\ a.item_id < b.item_id

(***************************************************************************)
(* The dictionary.  A dictionary value is the sequence of its Lines as the *)
(* ByLocation view iterates them: ordered by location, Lines of one        *)
(* location in the order they were inserted.  The ByLocationAndComponent   *)
(* view holds the same Lines, at most one per (location, comp_id).         *)
(***************************************************************************)
Lines(d) == {d[i] : i \in 1..Len(d)}

\* m.find(Line(l, comp_id)) on the ByLocationAndComponent view: the set of
\* matching Lines, empty when find returns end().
Find(d, l, comp_id) ==
    {ln \in Lines(d) : ln.location = l /\ ln.comp_id = comp_id}

\* m.equal_range(Line(l)) on the ByLocation view, in iteration order.
EqualRange(d, l) == SelectSeq(d, LAMBDA ln : ln.location = l)

\* The position, in the ByLocation view, after the last Line whose location
\* is not greater than l.
UpperBound(d, l) ==
    Cardinality({i \in 1..Len(d) : ~LocationLess(l, d[i].location)})

\* _dict.insert(line): rejected when the unique view already holds the key.
DictInsert(d, line) ==
    IF Find(d, line.location, line.comp_id) # {}
    THEN d
    ELSE LET k == UpperBound(d, line.location)
         IN  SubSeq(d, 1, k) \o <<line>> \o SubSeq(d, k + 1, Len(d))

(***************************************************************************)
(* renumberByLocation(offset).                                             *)
(***************************************************************************)
\* A renumbering whose counter is incremented before it is used.
renumberByLocation_PreIncrement(d, offset) ==
    [i \in 1..Len(d) |->
        [d[i] EXCEPT !.global_index = (offset + i) % IndexModulus]]

renumberByLocation(d, offset) ==
    [i \in 1..Len(d) |->
        [d[i] EXCEPT !.global_index = (offset + i - 1) % IndexModulus]]

(***************************************************************************)
(* The constructor.  The loops thread st = [dict, global_index].  Each     *)
(* iteration first reads st (InRange): TLC evaluates an operator's         *)
(* argument where it is first used, and a loop that only passes st on      *)
(* would leave one unevaluated insertion nested in the next, to the depth  *)
(* of the whole enumeration.                                               *)
(***************************************************************************)
InRange(st) == st.global_index \in 0..nop

\* Insertion that overwrites the Line already stored for the key.
RECURSIVE InsertItems_LastWins(_, _, _, _, _, _)
InsertItems_LastWins(st, mesh_id, item_type, ids, j, comp_id) ==
    IF ~InRange(st) \/ j > Len(ids)
    THEN st
    ELSE LET l == Location(mesh_id, item_type, ids[j])
             kept == SelectSeq(st.dict,
                         LAMBDA ln : ~(ln.location = l /\ ln.comp_id = comp_id))
         IN  InsertItems_LastWins(
                 [dict |-> DictInsert(kept, Line(l, comp_id, st.global_index)),
                  global_index |-> (st.global_index + 1) % IndexModulus],
                 mesh_id, item_type, ids, j + 1, comp_id)

\* One of the two inner loops: ids[j], ids[j+1], ... of one item type.
RECURSIVE InsertItems(_, _, _, _, _, _)
InsertItems(st, mesh_id, item_type, ids, j, comp_id) ==
    IF ~InRange(st) \/ j > Len(ids)
    THEN st
    ELSE InsertItems(
             [dict |-> DictInsert(st.dict,
                           Line(Location(mesh_id, item_type, ids[j]),
                                comp_id, st.global_index)),
              global_index |-> (st.global_index + 1) % IndexModulus],
             mesh_id, item_type, ids, j + 1, comp_id)

\* The body of the loop over mesh subsets: nodes first, then elements.
InsertMeshSubset(st, mesh_subset, comp_id) ==
    InsertItems(
        InsertItems(st, mesh_subset.mesh_id, "Node", mesh_subset.nodes, 1,
                    comp_id),
        mesh_subset.mesh_id, "Cell", mesh_subset.elements, 1, comp_id)

RECURSIVE InsertMeshSubsets(_, _, _, _)
InsertMeshSubsets(st, subsets, mesh_subset_index, comp_id) ==
    IF ~InRange(st) \/ mesh_subset_index > Len(subsets)
    THEN st
    ELSE InsertMeshSubsets(
             InsertMeshSubset(st, subsets[mesh_subset_index], comp_id),
             subsets, mesh_subset_index + 1, comp_id)

\* The loop over components; comp_id counts from 0.
RECURSIVE InsertComponents(_, _, _)
InsertComponents(st, components, comp_id) ==
    IF ~InRange(st) \/ comp_id >= Len(components)
    THEN st
    ELSE InsertComponents(
             InsertMeshSubsets(st, components[comp_id + 1].subsets, 1, comp_id),
             components, comp_id + 1)

\* A constructor whose counter starts at 1.
ConstructDict_FromOne(components) ==
    InsertComponents([dict |-> <<>>, global_index |-> 1], components, 0).dict

\* The dictionary when the loops end.
ConstructDict(components) ==
    InsertComponents([dict |-> <<>>, global_index |-> 0], components, 0).dict

\* The constructor dereferences every slot: (*c)->size().
HasNullComponent(components) ==
    \E i \in 1..Len(components) : components[i].null

MeshComponentMapCtor(components, order) ==
    IF order = "BY_LOCATION"
    THEN renumberByLocation(ConstructDict(components), 0)
    ELSE ConstructDict(components)

(***************************************************************************)
(* getLine and getSubset.  getSubset threads st = [ok, dict]: ok turns     *)
(* FALSE when a getLine finds no Line (its assert fails).  As in the       *)
(* constructor, each iteration first reads st (IsState).                   *)
(***************************************************************************)
IsState(st) == st.ok \in BOOLEAN

HasLine(d, l, comp_id) == Find(d, l, comp_id) # {}

\* Defined when HasLine(d, l, comp_id): a copy of the stored Line.
getLine(d, l, comp_id) == CHOOSE ln \in Find(d, l, comp_id) : TRUE

RECURSIVE CopyItems(_, _, _, _, _, _, _)
CopyItems(st, d, mesh_id, item_type, ids, j, comp_id) ==
    IF ~IsState(st) \/ j > Len(ids)
    THEN st
    ELSE LET l == Location(mesh_id, item_type, ids[j])
         IN  IF ~HasLine(d, l, comp_id)
             THEN CopyItems([st EXCEPT !.ok = FALSE],
                            d, mesh_id, item_type, ids, j + 1, comp_id)
             ELSE CopyItems(
                      [st EXCEPT !.dict = DictInsert(@, getLine(d, l, comp_id))],
                      d, mesh_id, item_type, ids, j + 1, comp_id)

CopyMeshSubset(st, d, mesh_subset, comp_id) ==
    CopyItems(
        CopyItems(st, d, mesh_subset.mesh_id, "Node", mesh_subset.nodes, 1,
                  comp_id),
        d, mesh_subset.mesh_id, "Cell", mesh_subset.elements, 1, comp_id)

RECURSIVE CopyMeshSubsets(_, _, _, _, _)
CopyMeshSubsets(st, d, subsets, mesh_subset_index, comp_id) ==
    IF ~IsState(st) \/ mesh_subset_index > Len(subsets)
    THEN st
    ELSE CopyMeshSubsets(
             CopyMeshSubset(st, d, subsets[mesh_subset_index], comp_id),
             d, subsets, mesh_subset_index + 1, comp_id)

\* The loop over the requested components in which a nullptr slot does not
\* advance comp_id: position i of cs is looked up as component comp_id.
RECURSIVE CopyComponents_NullKeepsId(_, _, _, _, _)
CopyComponents_NullKeepsId(st, d, cs, i, comp_id) ==
    IF ~IsState(st) \/ i > Len(cs)
    THEN st
    ELSE IF cs[i].null
         THEN CopyComponents_NullKeepsId(st, d, cs, i + 1, comp_id)
         ELSE CopyComponents_NullKeepsId(
                  CopyMeshSubsets(st, d, cs[i].subsets, 1, comp_id),
                  d, cs, i + 1, comp_id + 1)

\* The loop over the requested components; position i is component comp_id.
RECURSIVE CopyComponents(_, _, _, _, _)
CopyComponents(st, d, cs, i, comp_id) ==
    IF ~IsState(st) \/ i > Len(cs)
    THEN st
    ELSE IF cs[i].null
         THEN CopyComponents(st, d, cs, i + 1, comp_id + 1)
         ELSE CopyComponents(
                  CopyMeshSubsets(st, d, cs[i].subsets, 1, comp_id),
                  d, cs, i + 1, comp_id + 1)

\* [ok, dict]: dict is subset_dict when every getLine found its Line.
getSubset(d, cs) == CopyComponents([ok |-> TRUE, dict |-> <<>>], d, cs, 1, 0)

(***************************************************************************)
(* Queries.                                                                *)
(***************************************************************************)
getComponentIDs(d, l) ==
    LET p == EqualRange(d, l) IN [i \in 1..Len(p) |-> p[i].comp_id]

\* A lookup that answers 0 for a pair the map does not hold.
getGlobalIndex_ZeroWhenAbsent(d, l, comp_id) ==
    IF HasLine(d, l, comp_id) THEN getLine(d, l, comp_id).global_index ELSE 0

getGlobalIndex(d, l, comp_id) ==
    IF Find(d, l, comp_id) # {}
    THEN (CHOOSE ln \in Find(d, l, comp_id) : TRUE).global_index
    ELSE nop

getGlobalIndices(d, l) ==
    LET p == EqualRange(d, l) IN [i \in 1..Len(p) |-> p[i].global_index]

RECURSIVE getGlobalIndicesByLocation(_, _)
getGlobalIndicesByLocation(d, ls) ==
    IF ls = <<>>
    THEN <<>>
    ELSE getGlobalIndices(d, Head(ls)) \o getGlobalIndicesByLocation(d, Tail(ls))

\* (comp_id, global_index) pairs of the Lines at the locations of ls.
RECURSIVE CIPairs(_, _)
CIPairs(d, ls) ==
    IF ls = <<>>
    THEN <<>>
    ELSE LET p == EqualRange(d, Head(ls))
         IN  [i \in 1..Len(p) |-> <<p[i].comp_id, p[i].global_index>>]
                 \o CIPairs(d, Tail(ls))

CIPairLess(a, b) == a[1] < b[1]

\* std::is_sorted(pairs.begin(), pairs.end(), CIPairLess)
IsSorted(pairs) ==
    \A i \in 1..(Len(pairs) - 1) : ~CIPairLess(pairs[i + 1], pairs[i])

\* Insert p behind every element that is not greater than p.
InsertSorted(sorted, p) ==
    LET k == Cardinality({i \in 1..Len(sorted) : ~CIPairLess(p, sorted[i])})
    IN  SubSeq(sorted, 1, k) \o <<p>> \o SubSeq(sorted, k + 1, Len(sorted))

\* std::stable_sort with CIPairLess: equal elements keep their order.
RECURSIVE StableSort(_, _)
StableSort(sorted, pairs) ==
    IF pairs = <<>>
    THEN sorted
    ELSE StableSort(InsertSorted(sorted, Head(pairs)), Tail(pairs))

\* std::pair's own operator<: by comp_id, then by global_index.
PairLess(a, b) == a[1] < b[1] \/ (a[1] = b[1] /\ a[2] < b[2])

RECURSIVE SortPairs(_, _)
SortPairs(sorted, pairs) ==
    IF pairs = <<>>
    THEN sorted
    ELSE LET p == Head(pairs)
             k == Cardinality({i \in 1..Len(sorted) : ~PairLess(p, sorted[i])})
         IN  SortPairs(SubSeq(sorted, 1, k) \o <<p>>
                           \o SubSeq(sorted, k + 1, Len(sorted)),
                       Tail(pairs))

\* Sorting the pairs with the default comparison of std::pair.
getGlobalIndicesByComponent_PairOrder(d, ls) ==
    LET sorted == SortPairs(<<>>, CIPairs(d, ls))
    IN  [i \in 1..Len(sorted) |-> sorted[i][2]]

getGlobalIndicesByComponent(d, ls) ==
    LET pairs == CIPairs(d, ls)
        sorted == IF IsSorted(pairs) THEN pairs ELSE StableSort(<<>>, pairs)
    IN  [i \in 1..Len(sorted) |-> sorted[i][2]]

(***************************************************************************)
(* Inputs.                                                                 *)
(***************************************************************************)
ComponentOrders == {"BY_COMPONENT", "BY_LOCATION"}

\* One mesh, nodes 0, 1, 2.
ThreeNodes == Component(<<MeshSubset(0, <<0, 1, 2>>, <<>>)>>)

\* Two meshes, the higher mesh id first, node ids out of order.
TwoMeshes ==
    Component(<<MeshSubset(1, <<0>>, <<>>), MeshSubset(0, <<1, 0>>, <<0>>)>>)

\* Two subsets of one mesh that share node 0 and element 0.
Overlapping ==
    Component(<<MeshSubset(0, <<1, 0>>, <<0>>), MeshSubset(0, <<0, 2>>, <<0>>)>>)

ComponentSlots ==
    {NullComponent, Component(<<>>), ThreeNodes, TwoMeshes, Overlapping}

SeqsUpTo(S, n) == UNION {[1..k -> S] : k \in 0..n}

ComponentLists == SeqsUpTo(ComponentSlots, MaxComponents)

\* The locations the components cover, and one no component covers.
QueryLocations ==
    {Location(0, "Node", 0), Location(0, "Node", 1), Location(0, "Node", 2),
     Location(0, "Cell", 0), Location(1, "Node", 0), Location(1, "Cell", 0)}

LocationLists == SeqsUpTo(QueryLocations, MaxLocs)

Offsets == 0..nop

\* The ends of GlobalIndexType's range.
EdgeOffsets == {0, 1, nop}

(***************************************************************************)
(* State.                                                                  *)
(***************************************************************************)
VARIABLES
    pc,          \* "start", "built"; "aborted" or "undefined" after a failure
    components,  \* the constructor's component list
    order,       \* the constructor's ComponentOrder
    dict,        \* _dict of the map
    call,        \* the call the caller has just made, with its arguments
    ret,         \* the sequence of numbers that call returned
    subset       \* _dict of the map that call returned, if it was getSubset

vars == <<pc, components, order, dict, call, ret, subset>>

Call(op) ==
    [op |-> op, offset |-> 0, l |-> <<>>, comp_id |-> 0, components |-> <<>>]

Init ==
    /\ pc = "start"
    /\ components = <<>>
    /\ order = "BY_COMPONENT"
    /\ dict = <<>>
    /\ call = Call("none")
    /\ ret = <<>>
    /\ subset = <<>>

\* MeshComponentMap(components, order).  A nullptr slot is dereferenced by
\* (*c)->size(): undefined behaviour, after which nothing is known.
Construct ==
    /\ pc = "start"
    /\ \E cs \in ComponentLists, o \in ComponentOrders :
          /\ components' = cs
          /\ order' = o
          /\ IF HasNullComponent(cs)
             THEN pc' = "undefined" /\ dict' = <<>>
             ELSE pc' = "built" /\ dict' = MeshComponentMapCtor(cs, o)
    /\ call' = Call("MeshComponentMap")
    /\ ret' = <<>>
    /\ subset' = <<>>

RenumberWith(offsets) ==
    /\ pc = "built"
    /\ call.op = "none"
    /\ \E offset \in offsets :
          /\ dict' = renumberByLocation(dict, offset)
          /\ call' = [Call("renumberByLocation") EXCEPT !.offset = offset]
    /\ ret' = <<>>
    /\ subset' = <<>>
    /\ UNCHANGED <<pc, components, order>>

\* renumberByLocation(offset), any offset of GlobalIndexType.
RenumberByLocation == RenumberWith(Offsets)

\* renumberByLocation(offset) at the ends of GlobalIndexType's range.
RenumberByLocationEdge == RenumberWith(EdgeOffsets)

\* getSubset(cs).  A getLine that finds no Line fails its assert (abort); with
\* assertions compiled out it dereferences end(): undefined behaviour.
GetSubset ==
    /\ pc = "built"
    /\ call.op = "none"
    /\ \E cs \in ComponentLists :
          /\ call' = [Call("getSubset") EXCEPT !.components = cs]
          /\ LET r == getSubset(dict, cs)
             IN  IF r.ok
                 THEN pc' = "built" /\ subset' = r.dict
                 ELSE pc' \in {"aborted", "undefined"} /\ subset' = <<>>
    /\ ret' = <<>>
    /\ UNCHANGED <<components, order, dict>>

GetComponentIDs ==
    /\ pc = "built"
    /\ call.op = "none"
    /\ \E l \in QueryLocations :
          /\ call' = [Call("getComponentIDs") EXCEPT !.l = <<l>>]
          /\ ret' = getComponentIDs(dict, l)
    /\ subset' = <<>>
    /\ UNCHANGED <<pc, components, order, dict>>

GetGlobalIndex ==
    /\ pc = "built"
    /\ call.op = "none"
    /\ \E l \in QueryLocations, comp_id \in 0..MaxComponents :
          /\ call' = [Call("getGlobalIndex") EXCEPT !.l = <<l>>,
                                                    !.comp_id = comp_id]
          /\ ret' = <<getGlobalIndex(dict, l, comp_id)>>
    /\ subset' = <<>>
    /\ UNCHANGED <<pc, components, order, dict>>

GetGlobalIndices ==
    /\ pc = "built"
    /\ call.op = "none"
    /\ \E l \in QueryLocations :
          /\ call' = [Call("getGlobalIndices") EXCEPT !.l = <<l>>]
          /\ ret' = getGlobalIndices(dict, l)
    /\ subset' = <<>>
    /\ UNCHANGED <<pc, components, order, dict>>

GetGlobalIndicesByLocation ==
    /\ pc = "built"
    /\ call.op = "none"
    /\ \E ls \in LocationLists :
          /\ call' = [Call("getGlobalIndicesByLocation") EXCEPT !.l = ls]
          /\ ret' = getGlobalIndicesByLocation(dict, ls)
    /\ subset' = <<>>
    /\ UNCHANGED <<pc, components, order, dict>>

GetGlobalIndicesByComponent ==
    /\ pc = "built"
    /\ call.op = "none"
    /\ \E ls \in LocationLists :
          /\ call' = [Call("getGlobalIndicesByComponent") EXCEPT !.l = ls]
          /\ ret' = getGlobalIndicesByComponent(dict, ls)
    /\ subset' = <<>>
    /\ UNCHANGED <<pc, components, order, dict>>

\* The caller has taken the result of its call and goes on to the next one.
Return ==
    /\ pc = "built"
    /\ call.op # "none"
    /\ call' = Call("none")
    /\ ret' = <<>>
    /\ subset' = <<>>
    /\ UNCHANGED <<pc, components, order, dict>>

(***************************************************************************)
(* Specifications.  Spec is the whole program; the others are the parts of *)
(* it that the properties below are about.                                 *)
(***************************************************************************)
\* Construction and renumbering.
NextBuild == Construct \/ RenumberByLocation \/ Return

SpecBuild == Init /\ [][NextBuild]_vars

\* Construction, renumbering and the queries.
NextQuery ==
    \/ Construct
    \/ RenumberByLocationEdge
    \/ GetComponentIDs
    \/ GetGlobalIndex
    \/ GetGlobalIndices
    \/ GetGlobalIndicesByLocation
    \/ GetGlobalIndicesByComponent
    \/ Return

SpecQuery == Init /\ [][NextQuery]_vars

\* Construction, renumbering and subset extraction.
NextSubset == Construct \/ RenumberByLocationEdge \/ GetSubset \/ Return

SpecSubset == Init /\ [][NextSubset]_vars

Next == NextBuild \/ NextQuery \/ NextSubset

Spec == Init /\ [][Next]_vars

(***************************************************************************)
(* What the properties speak of.                                           *)
(***************************************************************************)
RECURSIVE Concat(_)
Concat(ss) == IF ss = <<>> THEN <<>> ELSE Head(ss) \o Concat(Tail(ss))

\* The locations a mesh subset is enumerated in: its nodes, then its elements.
SubsetLocations(ms) ==
    [j \in 1..Len(ms.nodes) |-> Location(ms.mesh_id, "Node", ms.nodes[j])]
        \o [j \in 1..Len(ms.elements) |->
               Location(ms.mesh_id, "Cell", ms.elements[j])]

ComponentLocations(c) ==
    Concat([k \in 1..Len(c.subsets) |-> SubsetLocations(c.subsets[k])])

\* The (location, comp_id) pairs of a component list in enumeration order:
\* components in list order, comp_id the position in the list counted from 0;
\* a nullptr slot has no pairs.
Enumeration(cs) ==
    Concat([i \in 1..Len(cs) |->
               LET ls == ComponentLocations(cs[i])
               IN  [j \in 1..Len(ls) |->
                       [location |-> ls[j], comp_id |-> i - 1]]])

EnumeratedPairs(cs) == LET e == Enumeration(cs) IN {e[k] : k \in 1..Len(e)}

\* The first position (from 1) at which e enumerates pair p.
FirstPosition(e, p) ==
    CHOOSE k \in 1..Len(e) : e[k] = p /\ \A m \in 1..(k - 1) : e[m] # p

PairOf(ln) == [location |-> ln.location, comp_id |-> ln.comp_id]

Pairs(d) == {PairOf(ln) : ln \in Lines(d)}

AllPairs ==
    {[location |-> l, comp_id |-> c] : l \in QueryLocations, c \in 0..MaxComponents}

Indices(d) == {ln.global_index : ln \in Lines(d)}

\* The number of Lines of d stored for pair p.
Stored(d, p) == Cardinality({i \in 1..Len(d) : PairOf(d[i]) = p})

\* m comes before ln: by location, Lines of one location by comp_id.
LineBefore(m, ln) ==
    \/ LocationLess(m.location, ln.location)
    \/ m.location = ln.location /\ m.comp_id < ln.comp_id

Constructed == call.op = "MeshComponentMap" /\ pc = "built"

\* renumberByLocation(0) has just run: called, or as the constructor's last
\* step under BY_LOCATION.
RenumberedFromZero ==
    \/ pc = "built" /\ call.op = "renumberByLocation" /\ call.offset = 0
    \/ Constructed /\ order = "BY_LOCATION"

(***************************************************************************)
(* C1.  After construction and any renumberByLocation calls, the pairs for *)
(* which getGlobalIndex answers something other than nop are exactly the   *)
(* pairs enumerated from the components, and distinct pairs have distinct  *)
(* global indices.  Violated: renumberByLocation(offset) with offset + n   *)
(* beyond nop stores nop itself in a Line (see C6), and getGlobalIndex     *)
(* then answers nop for a pair the map holds.                              *)
(***************************************************************************)
C1_PairsAndInjective ==
    pc = "built" =>
        /\ {p \in AllPairs : getGlobalIndex(dict, p.location, p.comp_id) # nop}
               = EnumeratedPairs(components)
        /\ \A a, b \in Lines(dict) : a # b => a.global_index # b.global_index

\* C1 holds of every map in which no Line has the index nop.
C1_UnlessNopStored == nop \in Indices(dict) \/ C1_PairsAndInjective

(***************************************************************************)
(* C2.  After renumberByLocation(0) the global index of a Line is the      *)
(* number of Lines before it in the order (location, comp_id): the Lines   *)
(* of one location hold a contiguous block, the blocks are disjoint and    *)
(* follow Location's order, and within a block the indices rise with       *)
(* comp_id.                                                                *)
(***************************************************************************)
C2_RenumberGroupsByLocation ==
    RenumberedFromZero =>
        \A ln \in Lines(dict) :
            ln.global_index
                = Cardinality({m \in Lines(dict) : LineBefore(m, ln)})

\* Two components over nodes 0, 1, 2, built BY_COMPONENT, then renumbered:
\* node 0 -> {0, 1}, node 1 -> {2, 3}, node 2 -> {4, 5}, component 0 first.
C2_Witness ==
    /\ pc = "built"
    /\ components = <<ThreeNodes, ThreeNodes>>
    /\ order = "BY_COMPONENT"
    /\ call.op = "renumberByLocation" /\ call.offset = 0
    /\ \A i \in 0..2 :
          /\ getComponentIDs(dict, Location(0, "Node", i)) = <<0, 1>>
          /\ getGlobalIndices(dict, Location(0, "Node", i))
                 = <<2 * i, 2 * i + 1>>

(***************************************************************************)
(* C3.  getSubset(cs), when the parent holds every (location, position in  *)
(* cs) pair of the non-null entries of cs, returns a map whose Lines are   *)
(* exactly those pairs, each with the global index the parent has for it;  *)
(* a nullptr entry has no Line and still takes its position; the parent is *)
(* unchanged.                                                              *)
(***************************************************************************)
C3_SubsetKeepsIndices ==
    [][(/\ pc = "built"
        /\ call.op = "none"
        /\ call'.op = "getSubset"
        /\ EnumeratedPairs(call'.components) \subseteq Pairs(dict))
       => /\ pc' = "built"
          /\ dict' = dict
          /\ Pairs(subset') = EnumeratedPairs(call'.components)
          /\ \A p \in Pairs(subset') : Stored(subset', p) = 1
          /\ Lines(subset') \subseteq Lines(dict)]_vars

\* A request whose first slot is nullptr, answered with Lines of component 1
\* whose indices are not what a fresh numbering would give.
C3_Witness ==
    /\ pc = "built"
    /\ call.op = "getSubset"
    /\ Len(call.components) = 2
    /\ call.components[1].null
    /\ subset # <<>>
    /\ \A i \in 1..Len(subset) : subset[i].comp_id = 1
    /\ Lines(subset) \subseteq Lines(dict)
    /\ Indices(subset) # 0..(Len(subset) - 1)

(***************************************************************************)
(* C4.  Constructing from a component list with a nullptr slot completes:  *)
(* the slot has no Lines, the later components keep their positions as     *)
(* comp_id.  Violated: the constructor dereferences the slot.              *)
(***************************************************************************)
C4_NullSlotConstructs ==
    (call.op = "MeshComponentMap" /\ HasNullComponent(components)) =>
        /\ pc = "built"
        /\ Pairs(dict) = EnumeratedPairs(components)

(***************************************************************************)
(* C5.  getGlobalIndex(l, comp_id) never fails: it returns the global      *)
(* index of the Line stored for the pair, nop when there is none, and      *)
(* leaves the map unchanged.                                               *)
(***************************************************************************)
C5_GetGlobalIndexTotal ==
    [][(pc = "built" /\ call.op = "none" /\ call'.op = "getGlobalIndex")
       => LET p == [location |-> call'.l[1], comp_id |-> call'.comp_id]
              stored == {ln \in Lines(dict) : PairOf(ln) = p}
          IN  /\ pc' = "built"
              /\ dict' = dict
              /\ stored # {} => \E ln \in stored : ret' = <<ln.global_index>>
              /\ stored = {} => ret' = <<nop>>]_vars

\* nop for a component the map does not hold at a location it does hold.
C5_Witness ==
    /\ pc = "built"
    /\ call.op = "getGlobalIndex"
    /\ ret = <<nop>>
    /\ [location |-> call.l[1], comp_id |-> call.comp_id] \notin Pairs(dict)
    /\ \E ln \in Lines(dict) : ln.location = call.l[1]

(***************************************************************************)
(* C6.  nop is never the global index of a stored Line, whatever offsets   *)
(* renumberByLocation is called with.  Violated: renumberByLocation(nop)   *)
(* gives the first Line the index nop.                                     *)
(***************************************************************************)
C6_NopNeverStored ==
    pc = "built" => \A ln \in Lines(dict) : ln.global_index # nop

(***************************************************************************)
(* C7.  getComponentIDs(l) returns, each once, exactly the comp_ids for    *)
(* which getGlobalIndex(l, id) is not nop, and its i-th entry belongs to   *)
(* the Line of the i-th entry of getGlobalIndices(l).  Violated: for the   *)
(* Line that renumberByLocation gave the index nop (see C6),               *)
(* getGlobalIndex answers nop although getComponentIDs lists it.           *)
(***************************************************************************)
C7_ComponentIDsMatchIndices ==
    (pc = "built" /\ call.op = "getComponentIDs") =>
        LET l == call.l[1]
            gs == getGlobalIndices(dict, l)
        IN  /\ {ret[i] : i \in 1..Len(ret)}
                   = {c \in 0..MaxComponents : getGlobalIndex(dict, l, c) # nop}
            /\ \A i, j \in 1..Len(ret) : i # j => ret[i] # ret[j]
            /\ Len(gs) = Len(ret)
            /\ \A i \in 1..Len(ret) : Line(l, ret[i], gs[i]) \in Lines(dict)

\* C7 holds of every map in which no Line has the index nop.
C7_UnlessNopStored == nop \in Indices(dict) \/ C7_ComponentIDsMatchIndices

(***************************************************************************)
(* C8.  getGlobalIndicesByComponent(ls) is getGlobalIndicesByLocation(ls)  *)
(* stably sorted by the comp_id of each index's Line: the indices of       *)
(* comp_id 0 in their order, then those of comp_id 1, and so on.           *)
(***************************************************************************)
CompOfIndex(d, g) == (CHOOSE ln \in Lines(d) : ln.global_index = g).comp_id

RECURSIVE GroupedByComponent(_, _, _)
GroupedByComponent(d, gs, c) ==
    IF c > MaxComponents
    THEN <<>>
    ELSE SelectSeq(gs, LAMBDA g : CompOfIndex(d, g) = c)
             \o GroupedByComponent(d, gs, c + 1)

C8_ByComponentIsStableSort ==
    (pc = "built" /\ call.op = "getGlobalIndicesByComponent") =>
        ret = GroupedByComponent(dict,
                                 getGlobalIndicesByLocation(dict, call.l), 0)

\* The sort moved something, and two indices of one component stay in an
\* order that is not their numeric order.
C8_Witness ==
    /\ pc = "built"
    /\ call.op = "getGlobalIndicesByComponent"
    /\ ret # getGlobalIndicesByLocation(dict, call.l)
    /\ \E i, j \in 1..Len(ret) :
          /\ i < j
          /\ ret[i] > ret[j]
          /\ CompOfIndex(dict, ret[i]) = CompOfIndex(dict, ret[j])

(***************************************************************************)
(* C9.  When the loops of the constructor end, the dictionary holds        *)
(* exactly one Line for every enumerated pair, with the global index       *)
(* assigned when the pair was first enumerated: a later insertion of the   *)
(* pair changed nothing.  Under BY_COMPONENT this is the map; under        *)
(* BY_LOCATION the map holds the same pairs, once each, renumbered.        *)
(***************************************************************************)
C9_FirstInsertionWins ==
    Constructed =>
        LET e == Enumeration(components)
            d == ConstructDict(components)
        IN  /\ \A k \in 1..Len(e) :
                  /\ Stored(d, e[k]) = 1
                  /\ Line(e[k].location, e[k].comp_id,
                          FirstPosition(e, e[k]) - 1) \in Lines(d)
                  /\ Stored(dict, e[k]) = 1
            /\ Pairs(dict) = Pairs(d)
            /\ order = "BY_COMPONENT" => dict = d

\* A pair enumerated twice; its Line has the index of the first time.
C9_Witness ==
    /\ Constructed
    /\ order = "BY_COMPONENT"
    /\ LET e == Enumeration(components)
       IN  \E k1, k2 \in 1..Len(e) :
              /\ k1 < k2
              /\ e[k1] = e[k2]
              /\ FirstPosition(e, e[k1]) = k1
              /\ Line(e[k1].location, e[k1].comp_id, k1 - 1) \in Lines(dict)
              /\ Stored(dict, e[k1]) = 1

(***************************************************************************)
(* C10, as claimed.  After construction the global indices are exactly     *)
(* 0 .. n-1 for the n Lines of the map, overlapping subsets included, and  *)
(* under BY_COMPONENT the index of a Line is a position at which its pair  *)
(* is enumerated.  Violated: a pair enumerated again still takes a         *)
(* counter value, which no Line gets.                                      *)
(***************************************************************************)
C10_IndicesContiguous ==
    Constructed =>
        LET e == Enumeration(components)
        IN  /\ Indices(dict) = 0..(Len(dict) - 1)
            /\ order = "BY_COMPONENT" =>
                   \A ln \in Lines(dict) :
                       /\ ln.global_index + 1 \in 1..Len(e)
                       /\ e[ln.global_index + 1] = PairOf(ln)

(***************************************************************************)
(* C10, amended.  After construction the global indices are exactly        *)
(* 0 .. n-1 under BY_LOCATION, and under BY_COMPONENT when no pair is      *)
(* enumerated twice; under BY_COMPONENT the index of a Line is the         *)
(* position, counted from 0 over everything enumerated, at which its pair  *)
(* is first enumerated.                                                    *)
(***************************************************************************)
C10_IndicesByFirstPosition ==
    Constructed =>
        LET e == Enumeration(components)
            distinct == \A i, j \in 1..Len(e) : i # j => e[i] # e[j]
        IN  /\ (order = "BY_LOCATION" \/ distinct) =>
                   Indices(dict) = 0..(Len(dict) - 1)
            /\ order = "BY_COMPONENT" =>
                   \A ln \in Lines(dict) :
                       /\ PairOf(ln) \in EnumeratedPairs(components)
                       /\ ln.global_index + 1 = FirstPosition(e, PairOf(ln))

\* Two components over nodes 0, 1, 2 under BY_COMPONENT: component 0 has
\* {0, 1, 2} and component 1 has {3, 4, 5}.
C10_Witness ==
    /\ Constructed
    /\ order = "BY_COMPONENT"
    /\ components = <<ThreeNodes, ThreeNodes>>
    /\ \A i \in 0..2 :
          getGlobalIndices(dict, Location(0, "Node", i)) = <<i, i + 3>>

=============================================================================
